---- MODULE Spec2Model ----
(***************************************************************************)
(* chunked_rw: the double-buffered chunked file reader (file_read_chunks)  *)
(* and writer (file_writer_chunks), each with its background workers.      *)
(*                                                                         *)
(* A byte is an integer.  The k-th byte of a reader's input file, and the  *)
(* k-th byte handed to writeBytes, has the value k, so that any loss,      *)
(* duplication or reordering of bytes shows in the contents.  0 is a byte  *)
(* of the zero-filled region resize_file() reserves, and Uninit marks a    *)
(* byte of freshly allocated memory that was never written.                *)
(***************************************************************************)
EXTENDS Integers, Sequences, FiniteSets, TLC

\* ------------------------------------------------------------------ bounds
MaxChunk == 4
MaxFile == 8
MaxReq == 3
MaxOver == 3
MaxBuf == 2
MaxStart == 3
MaxWrite == 4
MaxAppend == 6
MaxOvLen == 2
MaxOw == 1
MaxOpens == 2
MaxReopens == 1

\* chunk sizes a reader is constructed with (file_read_chunks(chunkBuffSize))
ChunkSizes == 2..MaxChunk
\* the most bytes the foreground asks for over a reader's lifetime
MaxDeliver(S) == S + MaxOver

\* ------------------------------------------------------------------ bytes
\* a byte of memory returned by _aligned_malloc / new[] and never written
Uninit == -1
\* the values a read of such a byte may produce
UninitVals == {0, 1}
\* size_t arithmetic wraps; SizeModulus stands for 2^64 (any value above
\* every quantity of the model orders the results the same way)
SizeModulus == 2^30

Min(a, b) == IF a < b THEN a ELSE b
Max(a, b) == IF a > b THEN a ELSE b

\* a - b on size_t
SizeSub(a, b) == IF a >= b THEN a - b ELSE SizeModulus - (b - a)

Bufs == {"A", "B"}

VARIABLES
    \* ---- the file on disk
    file,           \* its bytes, in file order
    \* ---- file_read_chunks
    r_pc,           \* where the foreground is in BeginRead / read_rawData
    r_open,         \* _file.is_open()
    r_fpos,         \* _file's get position
    r_ffail,        \* _file's failbit (set by a short read; later reads do nothing)
    r_cap,          \* _buff_a/_buff_b . _allocatedSize
    r_fileByteSize, r_numChunks, r_chunkSize, r_lastChunkSize,
    r_id,           \* _readingChunk_id
    r_isA,          \* _isA
    b_data,         \* RawData_Buff::_data of each buffer
    b_size,         \* RawData_Buff::_size
    b_ix,           \* RawData_Buff::_currIx
    l_pc,           \* _loadThread: "none" (not joinable) or the lambda's position
    l_target,       \* the lambda's captured isLoad_intoA, as a buffer name
    l_size,         \* the lambda's this_chunk_size
    r_numBytes,     \* read_rawData's numBytes (what is still to copy)
    \* ---- observations of the reader (history, no effect on the program)
    delivered,      \* every byte read_rawData has copied out, in order
    r_req,          \* the length the current / last read_rawData call asked for
    r_got,          \* how many bytes that call has copied out so far
    r_snap,         \* the stream position when that call began
    hm,             \* the last answer of HasMoreForRead, "none" after a read
    loadSizes,      \* the apparent size each finished load gave its chunk
    loadsStarted,   \* how many loads fetchIntoBuff_thrd has launched
    l_live,         \* load threads started and not yet joined
    r_reopens,      \* how many times BeginRead was called on a used reader
    \* ---- file_writer_chunks
    w_pc,           \* where the foreground is in the writer's public methods
    w_began,        \* _began
    w_fopen,        \* _f.is_open()
    w_fpos,         \* _f's put position (tellp)
    w_buffSize,     \* _buffSizeBytes
    w_buf,          \* the bytes of _buff_A and _buff_B
    w_isA,          \* _isA
    w_next_ix,      \* _next_ix_inBuff
    w_numBytesStored, \* _numBytesStored
    w_task,         \* _writeTask_A/_B: "invalid", or the flush's progress
    w_mu,           \* who holds _mu_fileAccess
    w_count,        \* writeBytes_internal's count (what is still to store)
    ow_off, ow_n,   \* overwriteBytes_slow's numBytesOffset_inFile and count
    ow_id,          \* which overwrite call this is (its bytes are OvByte(ow_id, j))
    \* ---- observations of the writer (history, no effect on the program)
    w_start,        \* the startingFilesizeBytes the stream was opened with
    w_appended,     \* how many bytes writeBytes has been handed
    w_expect,       \* the logical stream: appended bytes, overwrites patched in
    w_unspec,       \* an overwrite reached past the append position
    w_patch,        \* offset -> byte, for overwrites inside the appended data
    w_owCount,      \* how many overwrites were called
    w_firstOw,      \* the stream's first write was an overwrite at offset 0
    ow_before,      \* the logical stream when the current / last overwrite was called
    ow_straddle,    \* that overwrite's range held flushed and not yet flushed bytes
    w_ticket,       \* the launch number of each accumulator's current flush
    w_launched,     \* how many flushes were started (final partial one included)
    w_flushLog,     \* the launch numbers in the order they reached the file
    \* ---- the writer's stream state and its instance-long history
    w_fbad,         \* _f's badbit (set by a failed write; later writes do nothing)
    w_failed,       \* a background flush of this stream failed
    w_reported,     \* a call on this stream raised that failure to the caller
    w_opens,        \* how many times beginWrite was called on the instance
    w_total         \* the sum of the counts of all writeBytes calls on the instance

rvars == <<r_pc, r_open, r_fpos, r_ffail, r_cap, r_fileByteSize, r_numChunks,
           r_chunkSize, r_lastChunkSize, r_id, r_isA, b_data, b_size, b_ix,
           l_pc, l_target, l_size, r_numBytes, delivered, r_req, r_got,
           r_snap, hm, loadSizes, loadsStarted, l_live, r_reopens>>

\* the writer's observations
wobs == <<w_start, w_appended, w_expect, w_unspec, w_patch, w_owCount, w_firstOw,
          ow_before, ow_straddle>>
wflushobs == <<w_ticket, w_launched, w_flushLog>>

wlife == <<w_fbad, w_failed, w_reported, w_opens, w_total>>

wvars == <<w_pc, w_began, w_fopen, w_fpos, w_buffSize, w_buf, w_isA, w_next_ix,
           w_numBytesStored, w_task, w_mu, w_count, ow_off, ow_n, ow_id,
           wobs, wflushobs, wlife>>

vars == <<file, rvars, wvars>>

\* ------------------------------------------------------------ RawData_Buff
remaining(b) == SizeSub(b_size[b], b_ix[b])
endReached(b) == b_ix[b] >= b_size[b]

\* ---------------------------------------------------------- file_read_chunks
get_currBuff == IF r_isA THEN "A" ELSE "B"

HasMoreForRead ==
    LET isLastChunk == r_id >= SizeSub(r_numChunks, 1)
    IN  (~isLastChunk) \/ (~endReached(get_currBuff))

\* the stream position, as claims about "position unchanged" compare it
Position == [isA |-> r_isA, id |-> r_id, ix |-> b_ix, n |-> Len(delivered)]

\* _numChunks and _lastChunkSize of BeginRead
NumChunksOf(S, C) == IF S % C > 0 THEN (S \div C) + 1 ELSE S \div C
LastChunkSizeOf(S, C) == IF S % C > 0 THEN S % C ELSE C

\* the lambda's choice of this_chunk_size
ThisChunkSize(id) ==
    IF id = SizeSub(r_numChunks, 1) THEN r_lastChunkSize ELSE r_chunkSize

\* fetchIntoBuff_thrd's early return
NothingToFetch == r_id >= r_numChunks

\* a reader constructed with chunk size c, before BeginRead
ReaderInit(c) ==
    /\ r_pc = "new"
    /\ r_open = FALSE
    /\ r_fpos = 0
    /\ r_ffail = FALSE
    /\ r_cap = c
    /\ r_fileByteSize = 0 /\ r_numChunks = 0 /\ r_chunkSize = 0 /\ r_lastChunkSize = 0
    /\ r_id = 0
    /\ r_isA = TRUE
    /\ b_data = [b \in Bufs |-> [i \in 1..c |-> Uninit]]
    /\ b_size = [b \in Bufs |-> 0]
    /\ b_ix = [b \in Bufs |-> 0]
    /\ l_pc = "none"
    /\ l_target = "A"
    /\ l_size = 0
    /\ r_numBytes = 0
    /\ delivered = <<>>
    /\ r_req = 0
    /\ r_got = 0
    /\ r_snap = [isA |-> TRUE, id |-> 0, ix |-> [b \in Bufs |-> 0], n |-> 0]
    /\ hm = "none"
    /\ loadSizes = <<>>
    /\ loadsStarted = 0
    /\ l_live = 0
    /\ r_reopens = 0

\* BeginRead, lines 55-74: EndRead, open, the geometry
BeginRead ==
    /\ r_pc = "new"
    /\ l_pc = "none"
    /\ r_open' = TRUE
    /\ r_fpos' = 0
    /\ r_ffail' = FALSE
    /\ r_chunkSize' = r_cap
    /\ r_fileByteSize' = Len(file)
    /\ r_numChunks' = NumChunksOf(Len(file), r_cap)
    /\ r_lastChunkSize' = LastChunkSizeOf(Len(file), r_cap)
    /\ r_pc' = "open_fetchA"
    /\ UNCHANGED <<wvars, file, r_reopens, r_cap, r_id, r_isA, b_data, b_size, b_ix, l_pc, l_target,
                   l_size, r_numBytes, delivered, r_req, r_got, r_snap, hm,
                   loadSizes, loadsStarted, l_live>>

\* BeginRead, lines 55-74, on a reader that was used before, for a file
\* with contents f: EndRead joins the load thread and closes the old file,
\* the new file is opened at its start and the geometry is computed from
\* it. _readingChunk_id, _isA and both buffers are as the last stream left
\* them until lines 81-82.
BeginRead_again(f) ==
    /\ r_pc \in {"idle", "closed"}
    /\ l_pc \in {"none", "done"}
    /\ l_pc' = "none"
    /\ l_live' = 0
    /\ file' = f
    /\ r_open' = TRUE
    /\ r_fpos' = 0
    /\ r_ffail' = FALSE
    /\ r_chunkSize' = r_cap
    /\ r_fileByteSize' = Len(f)
    /\ r_numChunks' = NumChunksOf(Len(f), r_cap)
    /\ r_lastChunkSize' = LastChunkSizeOf(Len(f), r_cap)
    /\ r_pc' = "open_fetchA"
    /\ r_reopens' = r_reopens + 1
    /\ delivered' = <<>>
    /\ r_req' = 0
    /\ r_got' = 0
    /\ r_snap' = [isA |-> r_isA, id |-> r_id, ix |-> b_ix, n |-> 0]
    /\ hm' = "none"
    /\ loadSizes' = <<>>
    /\ loadsStarted' = 0
    /\ UNCHANGED <<wvars, r_cap, r_id, r_isA, b_data, b_size, b_ix, l_target,
                   l_size, r_numBytes>>

\* mutant: fetchIntoBuff_thrd goes on without joining the previous load
JoinLoadThread_noWait == TRUE

\* if (_loadThread.joinable()) _loadThread.join(): the caller goes on once
\* the thread, if there is one, has run to its end
JoinLoadThread == l_pc \in {"none", "done"}

\* the threads still alive once that join has returned
LiveAfterJoin == IF l_pc \in {"none", "done"} THEN 0 ELSE l_live

\* fetchIntoBuff_thrd from the state after its join: launch the lambda on
\* buffer b unless there is nothing to fetch
Launch(b) ==
    IF NothingToFetch
    THEN /\ l_pc' = "none"
         /\ l_live' = LiveAfterJoin
         /\ UNCHANGED <<l_target, loadsStarted>>
    ELSE /\ l_pc' = "start"
         /\ l_target' = b
         /\ loadsStarted' = loadsStarted + 1
         /\ l_live' = LiveAfterJoin + 1

\* BeginRead, line 76: fetchIntoBuff_thrd(true); line 77 then joins, and
\* join() of a thread that was never started throws std::system_error
BeginRead_fetchA ==
    /\ r_pc = "open_fetchA"
    /\ Launch("A")
    /\ r_pc' = IF NothingToFetch THEN "failed" ELSE "open_join"
    /\ UNCHANGED <<wvars, file, r_reopens, r_open, r_fpos, r_ffail, r_cap, r_fileByteSize, r_numChunks,
                   r_chunkSize, r_lastChunkSize, r_id, r_isA, b_data, b_size, b_ix,
                   l_size, r_numBytes, delivered, r_req, r_got, r_snap, hm, loadSizes>>

\* BeginRead, line 77: _loadThread.join()
BeginRead_join ==
    /\ r_pc = "open_join"
    /\ l_pc = "done"
    /\ l_pc' = "none"
    /\ l_live' = 0
    /\ r_pc' = "open_fetchB"
    /\ UNCHANGED <<wvars, file, r_reopens, r_open, r_fpos, r_ffail, r_cap, r_fileByteSize, r_numChunks,
                   r_chunkSize, r_lastChunkSize, r_id, r_isA, b_data, b_size, b_ix,
                   l_target, l_size, r_numBytes, delivered, r_req, r_got, r_snap, hm,
                   loadSizes, loadsStarted>>

\* BeginRead, line 79: fetchIntoBuff_thrd(false), not joined
BeginRead_fetchB ==
    /\ r_pc = "open_fetchB"
    /\ l_pc = "none"
    /\ Launch("B")
    /\ r_pc' = "open_set"
    /\ UNCHANGED <<wvars, file, r_reopens, r_open, r_fpos, r_ffail, r_cap, r_fileByteSize, r_numChunks,
                   r_chunkSize, r_lastChunkSize, r_id, r_isA, b_data, b_size, b_ix,
                   l_size, r_numBytes, delivered, r_req, r_got, r_snap, hm, loadSizes>>

\* BeginRead, lines 81-82
BeginRead_set ==
    /\ r_pc = "open_set"
    /\ r_isA' = TRUE
    /\ r_id' = 0
    /\ r_pc' = "idle"
    /\ UNCHANGED <<wvars, file, r_reopens, r_open, r_fpos, r_ffail, r_cap, r_fileByteSize, r_numChunks,
                   r_chunkSize, r_lastChunkSize, b_data, b_size, b_ix, l_pc, l_target,
                   l_size, r_numBytes, delivered, r_req, r_got, r_snap, hm,
                   loadSizes, loadsStarted, l_live>>

\* ---- the load lambda (lines 148-160), one action per statement
\* lines 151-156: it reads _readingChunk_id when it runs, not when launched
Load_size ==
    /\ l_pc = "start"
    /\ l_size' = ThisChunkSize(r_id)
    /\ l_pc' = "reset"
    /\ UNCHANGED <<wvars, file, r_reopens, r_pc, r_open, r_fpos, r_ffail, r_cap, r_fileByteSize,
                   r_numChunks, r_chunkSize, r_lastChunkSize, r_id, r_isA, b_data,
                   b_size, b_ix, l_target, r_numBytes, delivered, r_req, r_got,
                   r_snap, hm, loadSizes, loadsStarted, l_live>>

\* line 157: buf.reset_ix()
Load_reset ==
    /\ l_pc = "reset"
    /\ b_ix' = [b_ix EXCEPT ![l_target] = 0]
    /\ l_pc' = "read"
    /\ UNCHANGED <<wvars, file, r_reopens, r_pc, r_open, r_fpos, r_ffail, r_cap, r_fileByteSize,
                   r_numChunks, r_chunkSize, r_lastChunkSize, r_id, r_isA, b_data,
                   b_size, l_target, l_size, r_numBytes, delivered, r_req, r_got,
                   r_snap, hm, loadSizes, loadsStarted, l_live>>

\* how many bytes _file.read(.., n) extracts
ReadCount(n) == IF r_ffail THEN 0 ELSE Min(n, Len(file) - r_fpos)

\* line 158: _file.read(buf.data_begin(), this_chunk_size); a read that meets
\* the end of the file stores what there was and sets failbit
Load_read ==
    /\ l_pc = "read"
    /\ LET k == ReadCount(l_size)
       IN  /\ b_data' = [b_data EXCEPT ![l_target] =
                            [i \in 1..r_cap |-> IF i <= k THEN file[r_fpos + i] ELSE @[i]]]
           /\ r_fpos' = r_fpos + k
           /\ r_ffail' = (r_ffail \/ k < l_size)
    /\ l_pc' = "setsize"
    /\ UNCHANGED <<wvars, file, r_reopens, r_pc, r_open, r_cap, r_fileByteSize, r_numChunks,
                   r_chunkSize, r_lastChunkSize, r_id, r_isA, b_size, b_ix,
                   l_target, l_size, r_numBytes, delivered, r_req, r_got, r_snap,
                   hm, loadSizes, loadsStarted, l_live>>

\* line 159: buf.set_apparent_size(this_chunk_size)
Load_setsize ==
    /\ l_pc = "setsize"
    /\ b_size' = [b_size EXCEPT ![l_target] = l_size]
    /\ loadSizes' = Append(loadSizes, l_size)
    /\ l_pc' = "done"
    /\ UNCHANGED <<wvars, file, r_reopens, r_pc, r_open, r_fpos, r_ffail, r_cap, r_fileByteSize,
                   r_numChunks, r_chunkSize, r_lastChunkSize, r_id, r_isA, b_data,
                   b_ix, l_target, l_size, r_numBytes, delivered, r_req, r_got,
                   r_snap, hm, loadsStarted, l_live>>

\* ---- read_rawData
\* the while condition of line 109
AfterCopy(numBytes) == IF numBytes > 0 THEN "copy" ELSE "idle"

\* read_rawData(outputHere, n), entry
ReadBytes(n) ==
    /\ r_pc = "idle"
    /\ r_open
    /\ Len(delivered) + n <= MaxDeliver(Len(file))
    /\ r_numBytes' = n
    /\ r_req' = n
    /\ r_got' = 0
    /\ r_snap' = Position
    /\ hm' = "none"
    /\ r_pc' = AfterCopy(n)
    /\ UNCHANGED <<wvars, file, r_reopens, r_open, r_fpos, r_ffail, r_cap, r_fileByteSize, r_numChunks,
                   r_chunkSize, r_lastChunkSize, r_id, r_isA, b_data, b_size, b_ix,
                   l_pc, l_target, l_size, delivered, loadSizes, loadsStarted, l_live>>

\* mutant: memcpy from data_begin() instead of data_current()
Copied_fromBegin(b, numCopy, g) ==
    [j \in 1..numCopy |->
        IF j <= r_cap /\ b_data[b][j] # Uninit THEN b_data[b][j] ELSE g]

\* the bytes memcpy takes from buffer b at its cursor: written bytes as they
\* are, never-written or out-of-bounds bytes as g
Copied(b, numCopy, g) ==
    [j \in 1..numCopy |->
        LET i == b_ix[b] + j
        IN  IF i <= r_cap /\ b_data[b][i] # Uninit THEN b_data[b][i] ELSE g]

\* lines 110-117 and 121-122: one round of the copy loop up to the test of
\* endReached()
Read_copy ==
    /\ r_pc = "copy"
    /\ LET buff == get_currBuff
           bufRemain == remaining(buff)
           numCopy == IF r_numBytes > bufRemain THEN bufRemain ELSE r_numBytes
       IN  /\ \E g \in UninitVals :
                delivered' = delivered \o Copied(buff, numCopy, g)
           /\ b_ix' = [b_ix EXCEPT ![buff] = @ + numCopy]
           /\ r_got' = r_got + numCopy
           /\ r_numBytes' = r_numBytes - numCopy
           /\ r_pc' = IF b_ix[buff] + numCopy >= b_size[buff]
                      THEN "fetch"
                      ELSE AfterCopy(r_numBytes - numCopy)
    /\ UNCHANGED <<wvars, file, r_reopens, r_open, r_fpos, r_ffail, r_cap, r_fileByteSize, r_numChunks,
                   r_chunkSize, r_lastChunkSize, r_id, r_isA, b_data, b_size,
                   l_pc, l_target, l_size, r_req, r_snap, hm, loadSizes, loadsStarted, l_live>>

\* line 118: fetchIntoBuff_thrd(_isA): join the previous load, then launch
\* a load into the buffer just read
Read_fetch ==
    /\ r_pc = "fetch"
    /\ JoinLoadThread
    /\ Launch(get_currBuff)
    /\ r_pc' = "focus"
    /\ UNCHANGED <<wvars, file, r_reopens, r_open, r_fpos, r_ffail, r_cap, r_fileByteSize, r_numChunks,
                   r_chunkSize, r_lastChunkSize, r_id, r_isA, b_data, b_size, b_ix,
                   l_size, r_numBytes, delivered, r_req, r_got, r_snap, hm, loadSizes>>

\* line 119: focus_next_buffer(), then the loop test
Read_focus ==
    /\ r_pc = "focus"
    /\ IF HasMoreForRead
       THEN /\ r_isA' = ~r_isA
            /\ r_id' = r_id + 1
       ELSE UNCHANGED <<r_isA, r_id>>
    /\ r_pc' = AfterCopy(r_numBytes)
    /\ UNCHANGED <<wvars, file, r_reopens, r_open, r_fpos, r_ffail, r_cap, r_fileByteSize, r_numChunks,
                   r_chunkSize, r_lastChunkSize, b_data, b_size, b_ix, l_pc, l_target,
                   l_size, r_numBytes, delivered, r_req, r_got, r_snap, hm,
                   loadSizes, loadsStarted, l_live>>

\* a call of HasMoreForRead() between two reads
HasMoreQuery ==
    /\ r_pc = "idle"
    /\ hm' = IF HasMoreForRead THEN "true" ELSE "false"
    /\ UNCHANGED <<wvars, file, r_reopens, r_pc, r_open, r_fpos, r_ffail, r_cap, r_fileByteSize,
                   r_numChunks, r_chunkSize, r_lastChunkSize, r_id, r_isA, b_data,
                   b_size, b_ix, l_pc, l_target, l_size, r_numBytes, delivered,
                   r_req, r_got, r_snap, loadSizes, loadsStarted, l_live>>

\* EndRead, lines 86-89; on a reader that is already closed both of its
\* conditions are false and nothing happens
EndRead ==
    /\ r_pc \in {"idle", "closed"}
    /\ JoinLoadThread
    /\ l_pc' = "none"
    /\ l_live' = 0
    /\ r_open' = FALSE
    /\ r_pc' = "closed"
    /\ UNCHANGED <<wvars, file, r_reopens, r_fpos, r_ffail, r_cap, r_fileByteSize, r_numChunks,
                   r_chunkSize, r_lastChunkSize, r_id, r_isA, b_data, b_size, b_ix,
                   l_target, l_size, r_numBytes, delivered, r_req, r_got, r_snap,
                   hm, loadSizes, loadsStarted>>

\* --------------------------------------------------------- file_writer_chunks
\* buffer sizes and reserved file sizes beginWrite is called with
BufSizes == 2..MaxBuf
StartSizes == {0, MaxStart}

\* the j-th byte of the k-th overwrite call's source
OvByte(k, j) == 100 * k + j

\* the file after _f.write(bytes) at put position pos: bytes replace what
\* was there and extend the file when they reach past its end
WriteAt(f, pos, bytes) ==
    [i \in 1..Max(Len(f), pos + Len(bytes)) |->
        IF i > pos /\ i <= pos + Len(bytes) THEN bytes[i - pos]
        ELSE IF i <= Len(f) THEN f[i] ELSE 0]

w_currBuff == IF w_isA THEN "A" ELSE "B"

\* a flush that was started and has not finished
Running(b) == w_task[b] \in {"pending", "locked"}

\* mutant: the file is accessed without taking _mu_fileAccess
mu_fileAccess_noLock == TRUE

\* mutant: completeWrite and overwriteBytes_slow take _mu_fileAccess before
\* ensure_all_buffs_flushed_to_file instead of after it
mu_fileAccess_heldByCaller == w_mu = "free" /\ w_pc \notin {"close_flush", "ow_flush"}

\* std::lock_guard lckFile(_mu_fileAccess) can be taken: nobody holds it
mu_fileAccess_free == w_mu = "free"

\* a file_writer_chunks as constructed
WriterInit ==
    /\ w_pc = "new"
    /\ w_began = FALSE
    /\ w_fopen = FALSE
    /\ w_fpos = 0
    /\ w_buffSize = 0
    /\ w_buf = [b \in Bufs |-> <<>>]
    /\ w_isA = TRUE
    /\ w_next_ix = 0
    /\ w_numBytesStored = 0
    /\ w_task = [b \in Bufs |-> "invalid"]
    /\ w_mu = "free"
    /\ w_count = 0
    /\ ow_off = 0 /\ ow_n = 0 /\ ow_id = 0
    /\ w_start = 0
    /\ w_appended = 0
    /\ w_expect = <<>>
    /\ w_unspec = FALSE
    /\ w_patch = {}
    /\ w_owCount = 0
    /\ w_firstOw = FALSE
    /\ ow_before = <<>>
    /\ ow_straddle = FALSE
    /\ w_ticket = [b \in Bufs |-> 0]
    /\ w_launched = 0
    /\ w_flushLog = <<>>
    /\ w_fbad = FALSE
    /\ w_failed = FALSE
    /\ w_reported = FALSE
    /\ w_opens = 0
    /\ w_total = 0

\* beginWrite(path, startingFilesizeBytes, std::ios::trunc, bufferSizeBytes),
\* on a new instance or on one whose stream was completed: new buffers, the
\* file opened (which clears the stream's state bits), truncated and resized;
\* lines 293-295 set _isA, _next_ix_inBuff and _began and nothing else.  The
\* observations start over with the new stream.
beginWrite(start, bsize) ==
    /\ w_pc \in {"new", "closed"}
    /\ w_opens < MaxOpens
    /\ mu_fileAccess_free
    /\ w_buffSize' = bsize
    /\ w_buf' = [b \in Bufs |-> [i \in 1..bsize |-> Uninit]]
    /\ w_fopen' = TRUE
    /\ w_fbad' = FALSE
    /\ file' = [i \in 1..start |-> 0]
    /\ w_fpos' = 0
    /\ w_isA' = TRUE
    /\ w_next_ix' = 0
    /\ w_began' = TRUE
    /\ w_opens' = w_opens + 1
    /\ w_start' = start
    /\ w_appended' = 0
    /\ w_expect' = <<>>
    /\ w_unspec' = FALSE
    /\ w_patch' = {}
    /\ w_owCount' = 0
    /\ w_firstOw' = FALSE
    /\ ow_before' = <<>>
    /\ ow_straddle' = FALSE
    /\ w_ticket' = [b \in Bufs |-> 0]
    /\ w_launched' = 0
    /\ w_flushLog' = <<>>
    /\ w_failed' = FALSE
    /\ w_reported' = FALSE
    /\ w_pc' = "idle"
    /\ UNCHANGED <<rvars, w_numBytesStored, w_task, w_mu, w_count, ow_off, ow_n, ow_id,
                   w_total>>

\* mutant: the count is added after the loop, when it holds only what the
\* last round left in the active buffer
NumBytesStoredAfter_loop(count) ==
    w_numBytesStored + Min(count, (w_next_ix + count) % w_buffSize)

\* line 378: _numBytesStored += count, before the loop consumes count
NumBytesStoredAfter(count) == w_numBytesStored + count

\* writeBytes(bytes, count) and writeBytes_internal up to its loop (line 378)
writeBytes(count) ==
    /\ w_pc = "idle"
    /\ w_began
    /\ w_numBytesStored' = NumBytesStoredAfter(count)
    /\ w_count' = count
    /\ w_appended' = w_appended + count
    /\ w_total' = w_total + count
    /\ w_expect' = w_expect \o [j \in 1..count |-> w_appended + j]
    /\ w_pc' = "write"
    /\ UNCHANGED <<rvars, file, w_began, w_fopen, w_fpos, w_buffSize, w_buf, w_isA,
                   w_next_ix, w_task, w_mu, ow_off, ow_n, ow_id, w_start, w_unspec,
                   w_patch, w_owCount, w_firstOw, ow_before, ow_straddle, wflushobs,
                   w_fbad, w_failed, w_reported, w_opens>>

\* mutant: a buffer is reused without get() of its task
TaskGet_noWait(b) == TRUE

\* if (_writeTask.valid()) _writeTask.get(): the caller goes on once the
\* task, if there is one, has finished
TaskGet(b) == ~Running(b)

\* that get() rethrows what the task threw
GetRethrows(b) == w_task[b] = "threw"

\* how writingLambda ends: _f.write reports a failure in the stream's state
\* bits (no exceptions() mask is ever set), so the lambda returns normally
\* whether or not the write succeeded
FlushOutcome(ok) == "ready"

\* line 390: how much of the rest goes into the active buffer
NumToWrite(count, numAvailabile) ==
    IF count > numAvailabile THEN numAvailabile ELSE count

\* lines 380-411: one round of writeBytes_internal's loop.  The get() of the
\* active buffer's task waits for its flush; a buffer filled to the brim is
\* handed to a new task and the role passes to the other buffer.
writeBytes_round ==
    /\ w_pc = "write"
    /\ TaskGet(w_currBuff)
    /\ w_reported' = (w_reported \/ GetRethrows(w_currBuff))
    /\ LET buff == w_currBuff
           numAvailabile == SizeSub(w_buffSize, w_next_ix)
           numToWrite == NumToWrite(w_count, numAvailabile)
           first == w_appended - w_count
       IN  /\ w_buf' = [w_buf EXCEPT ![buff] =
                           [i \in 1..w_buffSize |->
                               IF i > w_next_ix /\ i <= w_next_ix + numToWrite
                               THEN first + (i - w_next_ix) ELSE @[i]]]
           /\ IF numToWrite < numAvailabile
              THEN /\ w_next_ix' = w_next_ix + numToWrite
                   /\ w_task' = [w_task EXCEPT ![buff] = "invalid"]
                   /\ w_pc' = "idle"
                   /\ UNCHANGED <<w_isA, w_count, wflushobs>>
              ELSE /\ w_task' = [w_task EXCEPT ![buff] = "pending"]
                   /\ w_ticket' = [w_ticket EXCEPT ![buff] = w_launched + 1]
                   /\ w_launched' = w_launched + 1
                   /\ w_isA' = ~w_isA
                   /\ w_next_ix' = 0
                   /\ w_count' = w_count - numToWrite
                   /\ w_pc' = IF w_count - numToWrite > 0 THEN "write" ELSE "idle"
                   /\ UNCHANGED w_flushLog
    /\ UNCHANGED <<rvars, file, w_began, w_fopen, w_fpos, w_buffSize, w_numBytesStored,
                   w_mu, ow_off, ow_n, ow_id, wobs, w_fbad, w_failed, w_opens, w_total>>

\* writingLambda, line 399: the flush of buffer b takes _mu_fileAccess
Flush_lock(b) ==
    /\ w_task[b] = "pending"
    /\ mu_fileAccess_free
    /\ w_mu' = b
    /\ w_task' = [w_task EXCEPT ![b] = "locked"]
    /\ UNCHANGED <<rvars, file, w_pc, w_began, w_fopen, w_fpos, w_buffSize, w_buf, w_isA,
                   w_next_ix, w_numBytesStored, w_count, ow_off, ow_n, ow_id, wobs,
                   wflushobs, wlife>>

\* writingLambda, lines 400-402: it writes the whole buffer at the put
\* position and releases the lock; on a stream whose badbit is set the
\* write does nothing
Flush_write(b) ==
    /\ w_task[b] = "locked"
    /\ w_mu = b
    /\ IF w_fbad
       THEN UNCHANGED <<file, w_fpos>>
       ELSE /\ file' = WriteAt(file, w_fpos, w_buf[b])
            /\ w_fpos' = w_fpos + w_buffSize
    /\ w_mu' = "free"
    /\ w_task' = [w_task EXCEPT ![b] = FlushOutcome(~w_fbad)]
    /\ w_flushLog' = Append(w_flushLog, w_ticket[b])
    /\ UNCHANGED <<rvars, w_pc, w_began, w_fopen, w_buffSize, w_buf, w_isA, w_next_ix,
                   w_numBytesStored, w_count, ow_off, ow_n, ow_id, wobs, w_ticket,
                   w_launched, wlife>>

\* writingLambda, line 401, when the device refuses the write (disk full):
\* nothing reaches the file and the stream's badbit is set
Flush_fail(b) ==
    /\ w_task[b] = "locked"
    /\ w_mu = b
    /\ ~w_fbad
    /\ w_fbad' = TRUE
    /\ w_failed' = TRUE
    /\ w_mu' = "free"
    /\ w_task' = [w_task EXCEPT ![b] = FlushOutcome(FALSE)]
    /\ UNCHANGED <<rvars, file, w_fpos, w_pc, w_began, w_fopen, w_buffSize, w_buf, w_isA,
                   w_next_ix, w_numBytesStored, w_count, ow_off, ow_n, ow_id, wobs,
                   wflushobs, w_reported, w_opens, w_total>>

\* mutant: only an active buffer B is written out
PartialCount_onlyB == IF w_isA THEN 0 ELSE w_next_ix

\* line 362: what ensure_all_buffs_flushed_to_file still has to write
PartialCount == w_next_ix

\* ensure_all_buffs_flushed_to_file, lines 356-370: get() both tasks, write
\* what the active buffer holds, and start over on buffer A
ensure_all_buffs_flushed_to_file ==
    /\ \A b \in Bufs : TaskGet(b)
    /\ mu_fileAccess_free
    /\ w_reported' = (w_reported \/ \E b \in Bufs : GetRethrows(b))
    /\ w_task' = [b \in Bufs |-> "invalid"]
    /\ LET count == PartialCount
       IN  IF count > 0 /\ w_fbad
           THEN /\ w_launched' = w_launched + 1
                /\ UNCHANGED <<file, w_fpos, w_flushLog>>
           ELSE IF count > 0
           THEN /\ file' = WriteAt(file, w_fpos, SubSeq(w_buf[w_currBuff], 1, count))
                /\ w_fpos' = w_fpos + count
                /\ w_launched' = w_launched + 1
                /\ w_flushLog' = Append(w_flushLog, w_launched + 1)
           ELSE UNCHANGED <<file, w_fpos, w_launched, w_flushLog>>
    /\ w_next_ix' = 0
    /\ w_isA' = TRUE
    /\ UNCHANGED <<w_ticket, w_buf, w_mu>>

\* completeWrite, entry (lines 303-304)
completeWrite ==
    /\ w_pc = "idle"
    /\ w_began
    /\ w_pc' = "close_flush"
    /\ UNCHANGED <<rvars, file, w_began, w_fopen, w_fpos, w_buffSize, w_buf, w_isA,
                   w_next_ix, w_numBytesStored, w_task, w_mu, w_count, ow_off, ow_n,
                   ow_id, wobs, wflushobs, wlife>>

\* completeWrite, line 305
completeWrite_flush ==
    /\ w_pc = "close_flush"
    /\ ensure_all_buffs_flushed_to_file
    /\ w_pc' = "close_fin"
    /\ UNCHANGED <<rvars, w_began, w_fopen, w_buffSize, w_numBytesStored, w_count,
                   ow_off, ow_n, ow_id, wobs, w_fbad, w_failed, w_opens, w_total>>

\* completeWrite, lines 306-309
completeWrite_close ==
    /\ w_pc = "close_fin"
    /\ mu_fileAccess_free
    /\ w_fopen' = FALSE
    /\ w_began' = FALSE
    /\ w_pc' = "closed"
    /\ UNCHANGED <<rvars, file, w_fpos, w_buffSize, w_buf, w_isA, w_next_ix,
                   w_numBytesStored, w_task, w_mu, w_count, ow_off, ow_n, ow_id,
                   wobs, wflushobs, wlife>>

\* the source bytes of overwrite call k, n of them
OvSrc(k, n) == [j \in 1..n |-> OvByte(k, j)]

\* the logical stream after an overwrite of n bytes at off by call k
ExpectAfterOverwrite(off, n, k) ==
    LET apos == Len(w_expect)
    IN  IF off > apos THEN w_expect
        ELSE IF apos = 0 THEN OvSrc(k, n)
        ELSE [i \in 1..apos |->
                 IF i > off /\ i <= off + n THEN OvByte(k, i - off) ELSE w_expect[i]]

\* overwriteBytes_slow(numBytesOffset_inFile, bytes, count), entry (line 326)
overwriteBytes_slow(off, n) ==
    /\ w_pc = "idle"
    /\ w_began
    /\ w_owCount < MaxOw
    /\ ow_off' = off
    /\ ow_n' = n
    /\ ow_id' = w_owCount + 1
    /\ w_owCount' = w_owCount + 1
    /\ w_expect' = ExpectAfterOverwrite(off, n, w_owCount + 1)
    /\ w_firstOw' = (w_firstOw \/ (Len(w_expect) = 0 /\ off = 0))
    /\ w_unspec' = (w_unspec \/ (Len(w_expect) > 0 /\ off <= Len(w_expect)
                                     /\ off + n > Len(w_expect)))
    /\ w_patch' = {pr \in w_patch : ~(pr[1] > off /\ pr[1] <= off + n)}
                  \cup (IF off + n <= Len(w_expect)
                        THEN {<<off + j, OvByte(w_owCount + 1, j)>> : j \in 1..n}
                        ELSE {})
    /\ ow_before' = w_expect
    /\ ow_straddle' = (/\ w_next_ix > 0
                       /\ off + n <= Len(w_expect)
                       /\ off < Len(w_expect) - w_next_ix
                       /\ off + n > Len(w_expect) - w_next_ix)
    /\ w_pc' = "ow_flush"
    /\ UNCHANGED <<rvars, file, w_began, w_fopen, w_fpos, w_buffSize, w_buf, w_isA,
                   w_next_ix, w_numBytesStored, w_task, w_mu, w_count, w_start,
                   w_appended, wflushobs, wlife>>

\* overwriteBytes_slow, line 328
overwriteBytes_flush ==
    /\ w_pc = "ow_flush"
    /\ ensure_all_buffs_flushed_to_file
    /\ w_pc' = "ow_write"
    /\ UNCHANGED <<rvars, w_began, w_fopen, w_buffSize, w_numBytesStored, w_count,
                   ow_off, ow_n, ow_id, wobs, w_fbad, w_failed, w_opens, w_total>>

\* mutant: the assertion is compiled out
nn_dev_assert_off(cond) == TRUE

\* nn_dev_assert(cond): a failed assertion ends the operation
nn_dev_assert(cond) == cond

\* line 332: _f.tellp(), which is pos_type(-1) on a failed stream
TellP == IF w_fbad THEN SizeSub(0, 1) ELSE w_fpos

\* mutant: the put position is never restored after the direct write
SeekBack_never(fileEmpty_afterFlushAll, p, afterWrite) == afterWrite

\* lines 344-351: where the put position is left after the direct write
SeekBack(fileEmpty_afterFlushAll, p, afterWrite) ==
    IF fileEmpty_afterFlushAll THEN afterWrite ELSE p

\* overwriteBytes_slow, lines 330-351: the direct write
overwriteBytes_write ==
    /\ w_pc = "ow_write"
    /\ mu_fileAccess_free
    /\ LET p == TellP
           fileEmpty_afterFlushAll == (p = 0)
       IN  IF ~nn_dev_assert(ow_off <= p)
           THEN /\ w_pc' = "range_error"
                /\ UNCHANGED <<file, w_fpos>>
           ELSE IF w_fbad
           THEN /\ w_pc' = "idle"
                /\ UNCHANGED <<file, w_fpos>>
           ELSE /\ file' = WriteAt(file, ow_off, OvSrc(ow_id, ow_n))
                /\ w_fpos' = SeekBack(fileEmpty_afterFlushAll, p, ow_off + ow_n)
                /\ w_pc' = "idle"
    /\ UNCHANGED <<rvars, w_began, w_fopen, w_buffSize, w_buf, w_isA, w_next_ix,
                   w_numBytesStored, w_task, w_mu, w_count, ow_off, ow_n, ow_id,
                   wobs, wflushobs, wlife>>

\* a file of S bytes whose k-th byte is k
FileOf(S) == [k \in 1..S |-> k]

InitReader ==
    /\ \E S \in 0..MaxFile : file = FileOf(S)
    /\ \E c \in ChunkSizes : ReaderInit(c)
    /\ WriterInit

InitWriter ==
    /\ file = <<>>
    /\ ReaderInit(MaxBuf)
    /\ WriterInit

NextWriter ==
    \/ \E start \in StartSizes, bsize \in BufSizes :
          w_pc = "new" /\ beginWrite(start, bsize)
    \/ \E count \in 1..MaxWrite : w_appended + count <= MaxAppend /\ writeBytes(count)
    \/ writeBytes_round
    \/ \E b \in Bufs : Flush_lock(b)
    \/ \E b \in Bufs : Flush_write(b)
    \/ completeWrite
    \/ completeWrite_flush
    \/ completeWrite_close
    \/ \E off \in 0..(Len(w_expect) + 1), n \in 1..MaxOvLen : overwriteBytes_slow(off, n)
    \/ overwriteBytes_flush
    \/ overwriteBytes_write

SpecWriter == InitWriter /\ [][NextWriter]_vars

\* ---- a writer's file read back by a reader of the same chunk size
\* the stream lengths the round trip is made with
RoundTripSizes(C) == {0, 1, C - 1, C, C + 1, 3 * C + 7}

InitRoundTrip ==
    /\ file = <<>>
    /\ \E c \in BufSizes : ReaderInit(c)
    /\ WriterInit

NextRoundTrip ==
    \/ \E start \in StartSizes : w_pc = "new" /\ beginWrite(start, r_cap)
    \/ \E count \in 1..(3 * MaxBuf + 7) :
          /\ w_appended + count \in RoundTripSizes(w_buffSize)
          /\ writeBytes(count)
    \/ writeBytes_round
    \/ \E b \in Bufs : Flush_lock(b)
    \/ \E b \in Bufs : Flush_write(b)
    \/ completeWrite
    \/ completeWrite_flush
    \/ completeWrite_close
    \/ w_pc = "closed" /\ BeginRead
    \/ BeginRead_fetchA
    \/ BeginRead_join
    \/ BeginRead_fetchB
    \/ BeginRead_set
    \/ Load_size
    \/ Load_reset
    \/ Load_read
    \/ Load_setsize
    \/ \E n \in 1..MaxReq : Len(delivered) + n <= w_appended /\ ReadBytes(n)
    \/ Read_copy
    \/ Read_fetch
    \/ Read_focus

SpecRoundTrip == InitRoundTrip /\ [][NextRoundTrip]_vars

NextReader ==
    \/ BeginRead
    \/ BeginRead_fetchA
    \/ BeginRead_join
    \/ BeginRead_fetchB
    \/ BeginRead_set
    \/ Load_size
    \/ Load_reset
    \/ Load_read
    \/ Load_setsize
    \/ \E n \in 1..MaxReq : ReadBytes(n)
    \/ Read_copy
    \/ Read_fetch
    \/ Read_focus
    \/ HasMoreQuery
    \/ EndRead

SpecReader == InitReader /\ [][NextReader]_vars

\* ---- a reader that is opened again, on a file of any length
NextReaderReopen ==
    \/ NextReader
    \/ \E S \in 0..MaxFile : r_reopens < MaxReopens /\ BeginRead_again(FileOf(S))

SpecReaderReopen == InitReader /\ [][NextReaderReopen]_vars

\* ---- the writer on a device that may refuse a background write
NextWriterFail ==
    \/ \E start \in StartSizes, bsize \in BufSizes :
          w_pc = "new" /\ beginWrite(start, bsize)
    \/ \E count \in 1..MaxWrite : w_appended + count <= MaxAppend /\ writeBytes(count)
    \/ writeBytes_round
    \/ \E b \in Bufs : Flush_lock(b)
    \/ \E b \in Bufs : Flush_write(b)
    \/ \E b \in Bufs : Flush_fail(b)
    \/ completeWrite
    \/ completeWrite_flush
    \/ completeWrite_close
    \/ \E off \in 0..(Len(w_expect) + 1), n \in 1..MaxOvLen : overwriteBytes_slow(off, n)
    \/ overwriteBytes_flush
    \/ overwriteBytes_write

SpecWriterFail == InitWriter /\ [][NextWriterFail]_vars

\* ---- one writer instance used for several streams, one after the other
NextReopen ==
    \/ \E start \in StartSizes, bsize \in BufSizes : beginWrite(start, bsize)
    \/ \E count \in 1..MaxWrite : w_total + count <= MaxAppend /\ writeBytes(count)
    \/ writeBytes_round
    \/ \E b \in Bufs : Flush_lock(b)
    \/ \E b \in Bufs : Flush_write(b)
    \/ completeWrite
    \/ completeWrite_flush
    \/ completeWrite_close
    \/ \E off \in 0..(Len(w_expect) + 1), n \in 1..MaxOvLen : overwriteBytes_slow(off, n)
    \/ overwriteBytes_flush
    \/ overwriteBytes_write

SpecReopen == InitWriter /\ [][NextReopen]_vars

\* ---- the writer with its threads scheduled fairly: one condition per
\* thread. The thread of a flush task (std::async with launch::async) that
\* can take the lock or write does so; the foreground goes on with the call
\* it is in whenever it is not blocked.
FlushThread(b) == Flush_lock(b) \/ Flush_write(b)

Foreground ==
    \/ writeBytes_round
    \/ completeWrite_flush
    \/ completeWrite_close
    \/ overwriteBytes_flush
    \/ overwriteBytes_write

FairWriter ==
    /\ \A b \in Bufs : WF_vars(FlushThread(b))
    /\ WF_vars(Foreground)

SpecWriterLive == InitWriter /\ [][NextWriter]_vars /\ FairWriter

\* ================================================================ claims
\* the geometry the file really has
TrueNumChunks == (Len(file) + r_cap - 1) \div r_cap
TrueLastChunk == IF Len(file) % r_cap # 0 THEN Len(file) % r_cap ELSE r_cap
OpenEnded == r_pc \in {"idle", "copy", "fetch", "focus", "closed", "failed"}

RECURSIVE SumSeq(_)
SumSeq(s) == IF s = <<>> THEN 0 ELSE s[1] + SumSeq(Tail(s))

\* the file the writer's calls describe: the logical stream, then what is
\* left of the zero-filled region reserved at beginWrite
ExpectedFile ==
    [i \in 1..Max(Len(w_expect), w_start) |->
        IF i <= Len(w_expect) THEN w_expect[i] ELSE 0]

\* C1: HasMoreForRead() answers true while fewer than S bytes have been
\* delivered and false from the moment all S bytes have been delivered on,
\* however often it is asked and wherever the load worker is.
C1_HasMoreUntilConsumed ==
    hm # "none" => (hm = "true" <=> Len(delivered) < Len(file))

\* C2: a read_rawData call that asks for more bytes than remain in the
\* stream leaves the stream position as it was when the call began: active
\* buffer, both cursors, chunk index, and no byte consumed.
C2_OverReadLeavesPosition ==
    (r_pc = "idle" /\ r_req > Len(file) - r_snap.n) => Position = r_snap

\* C3: while the requests made so far sum to at most S, every byte delivered
\* is the file's byte at that place, in file order, and a call that has
\* returned delivered exactly the number of bytes it was asked for.
C3_DeliversFileOrder ==
    (r_snap.n + r_req <= Len(file)) =>
        /\ Len(delivered) <= r_snap.n + r_req
        /\ delivered = SubSeq(file, 1, Len(delivered))
        /\ r_got = Len(delivered) - r_snap.n
        /\ (r_pc \in {"idle", "closed"} => r_got = r_req)

\* C3 witness: chunk size 4, the 7-byte file, requests 2 then 3: the second
\* call crossed from chunk 0 to chunk 1 and returned bytes 3..5.
C3_Witness ==
    /\ r_cap = 4 /\ Len(file) = 7
    /\ r_pc = "idle"
    /\ r_snap.n = 2 /\ r_req = 3 /\ r_got = 3
    /\ r_snap.id = 0 /\ r_id = 1
    /\ delivered = <<1, 2, 3, 4, 5>>

\* C4: N bytes written by writeBytes and closed, then read back by a reader
\* opened on the file, come back byte for byte, for N in {0, 1, C-1, C, C+1,
\* 3C+7}: the k-th byte the reader delivers is the k-th byte that was
\* written.
C4_RoundTrip ==
    (w_pc = "closed" /\ w_appended \in RoundTripSizes(w_buffSize)) =>
        \A k \in 1..Len(delivered) : delivered[k] = k

\* C5: flushes reach the file in the order they were started, and so a
\* closed stream that was only appended to holds the bytes in the order
\* they were passed to writeBytes.
C5_FlushesInOrder ==
    /\ \A i, j \in 1..Len(w_flushLog) : i < j => w_flushLog[i] < w_flushLog[j]
    /\ (w_pc = "closed" /\ w_owCount = 0) =>
           SubSeq(file, 1, w_appended) = [k \in 1..w_appended |-> k]

\* C6: once BeginRead has ended, the chunk count is ceil(S/C), or 1 when
\* S = 0, and the last-chunk size L has 0 < L <= C, L = S mod C when that is
\* not zero and L = C otherwise.
C6_Geometry ==
    OpenEnded =>
        /\ r_numChunks = (IF Len(file) = 0 THEN 1 ELSE TrueNumChunks)
        /\ 0 < r_lastChunkSize /\ r_lastChunkSize <= r_cap
        /\ r_lastChunkSize = TrueLastChunk

\* C7: the i-th load gives chunk i-1 its geometric size: the chunk size for
\* every chunk but the last, the last-chunk size for the last; so the sizes
\* of all the file's chunks sum to S.
C7_LoadSizes ==
    /\ \A i \in 1..Len(loadSizes) :
          i <= TrueNumChunks =>
              loadSizes[i] = (IF i = TrueNumChunks THEN TrueLastChunk ELSE r_cap)
    /\ Len(loadSizes) >= TrueNumChunks =>
          SumSeq(SubSeq(loadSizes, 1, TrueNumChunks)) = Len(file)

\* C8: when BeginRead returns, chunk 0 is loaded in buffer A, the active
\* buffer is A, the chunk index is 0, and a load into B has been started if
\* and only if the file has more than one chunk.
C8_OpenReturn ==
    (r_pc = "idle" /\ r_req = 0) =>
        /\ r_isA /\ r_id = 0
        /\ b_ix["A"] = 0
        /\ b_size["A"] = (IF TrueNumChunks = 1 THEN TrueLastChunk ELSE r_cap)
        /\ SubSeq(b_data["A"], 1, b_size["A"]) = SubSeq(file, 1, b_size["A"])
        /\ (loadsStarted = 2 <=> TrueNumChunks > 1)
        /\ (loadsStarted = 1 <=> TrueNumChunks <= 1)

\* C9: an overwrite at offset 0 as the first write of a fresh stream leaves
\* the put position after its n bytes (no seek back), and the closed file is
\* those bytes followed by everything appended afterwards.
C9_FreshOverwriteThenAppend ==
    /\ (w_pc = "idle" /\ w_firstOw /\ w_owCount = 1 /\ w_appended = 0) =>
           (w_fpos = ow_n /\ SubSeq(file, 1, ow_n) = OvSrc(1, ow_n))
    /\ (w_pc = "closed" /\ w_firstOw /\ w_owCount = 1) => file = ExpectedFile

\* C10: when overwriteBytes_slow does its direct write, both flush handles
\* have been joined, the accumulator is empty and the put position is the
\* append position (everything appended is in the file); and in the closed
\* file every range overwritten inside the appended data holds the
\* overwriting bytes.
C10_OverwriteAfterFullFlush ==
    /\ w_pc = "ow_write" =>
           /\ \A b \in Bufs : w_task[b] = "invalid"
           /\ w_next_ix = 0
           /\ w_mu = "free"
           /\ w_fpos = Len(ow_before)
           /\ Len(file) >= w_fpos
    /\ w_pc = "closed" =>
           \A pr \in w_patch : pr[1] <= Len(file) /\ file[pr[1]] = pr[2]

\* C10 witness: a closed stream whose last overwrite lay across the boundary
\* between flushed bytes and bytes still in the accumulator, with more bytes
\* appended after it.
C10_Witness ==
    /\ w_pc = "closed"
    /\ ow_straddle
    /\ ow_n = 2
    /\ w_appended > Len(ow_before)
    /\ \A j \in 1..ow_n : <<ow_off + j, OvByte(ow_id, j)>> \in w_patch

\* C11: an overwrite whose offset lies beyond the append position never
\* returns normally, and no byte of its source is in the file.
C11_OverwritePastEndRejected ==
    (ow_id > 0 /\ ow_off > Len(ow_before)) =>
        /\ w_pc \in {"ow_flush", "ow_write", "range_error"}
        /\ \A i \in 1..Len(file), j \in 1..ow_n : file[i] # OvByte(ow_id, j)

\* C11 witness: three or more bytes were appended and flushed, and an
\* overwrite one byte beyond them was refused.
C11_Witness ==
    /\ w_pc = "range_error"
    /\ w_appended >= 3
    /\ ow_off = w_appended + 1
    /\ Len(file) >= w_appended

\* C12: numBytesStored_soFar() never decreases, and after every step it is
\* the sum of the counts passed to writeBytes so far, wherever the flushes
\* are.
C12_BytesStoredIsSumOfCounts ==
    [][ /\ w_numBytesStored' >= w_numBytesStored
        /\ w_numBytesStored' = w_total' ]_vars

\* C12 witness: on the second stream of an instance a writeBytes call has
\* returned, its bytes counted, while a flush it started has not yet reached
\* the file.
C12_Witness ==
    /\ w_opens = 2
    /\ w_pc = "idle"
    /\ w_appended >= 2
    /\ w_numBytesStored = w_total /\ w_total >= 4
    /\ \E b \in Bufs : Running(b)
    /\ Len(file) < w_appended

\* C13: completeWrite returns with the partial accumulator written and no
\* flush in flight, and the stream a second beginWrite starts is fresh:
\* buffer A active, fill offset 0, no flush handle, put position 0, and no
\* byte or counter of the first stream left.
C13_CloseClearsForReopen ==
    /\ w_pc = "closed" =>
           /\ \A b \in Bufs : w_task[b] = "invalid"
           /\ w_mu = "free"
           /\ w_next_ix = 0
           /\ w_owCount = 0 =>
                  \A k \in 1..w_appended : \E i \in 1..Len(file) : file[i] = k
    /\ (w_opens = 2 /\ w_pc = "idle" /\ w_appended = 0 /\ w_owCount = 0) =>
           /\ w_isA /\ w_next_ix = 0
           /\ \A b \in Bufs : w_task[b] = "invalid"
           /\ w_fpos = 0
           /\ file = [i \in 1..w_start |-> 0]
           /\ w_numBytesStored = 0

\* C14: once completeWrite has returned, a background flush that failed
\* has been reported to the caller.
C14_FailedFlushReported ==
    (w_pc = "closed" /\ w_failed) => w_reported

\* ---- the reader's buffers and its load thread
\* BeginRead has returned and the stream is in use
ReaderInUse == r_pc \in {"idle", "copy", "fetch", "focus"}
\* the load lambda is running
LoadInFlight == l_pc \in {"start", "reset", "read", "setsize"}
\* the file's bytes of chunk id
ChunkBytes(id) == SubSeq(file, id * r_cap + 1, Min((id + 1) * r_cap, Len(file)))

\* C15: while the foreground is between or inside its copy rounds, a load
\* in flight never has the active buffer, whose cursor, size and bytes the
\* foreground reads, as its target.
C15_LoadNeverTargetsActive ==
    (r_pc \in {"idle", "copy"} /\ LoadInFlight) => l_target # get_currBuff

\* C16: the chunk index of an open stream is at most chunk count - 1: the
\* exhaustion of the last chunk's buffer toggles nothing.
C16_NoPhantomChunk ==
    (ReaderInUse \/ r_pc = "closed") => r_id < r_numChunks

\* C17: at every swap the load into the buffer that becomes active has been
\* joined, and for a chunk of the file that buffer holds the chunk's bytes,
\* its cursor at 0.
C17_SwapAfterJoin ==
    [][ (r_isA' # r_isA) =>
            LET nb == IF r_isA' THEN "A" ELSE "B"
                chunk == ChunkBytes(r_id')
            IN  /\ ~(l_target' = nb /\ l_pc' # "none")
                /\ r_id' < TrueNumChunks =>
                       /\ b_ix'[nb] = 0
                       /\ b_size'[nb] >= Len(chunk)
                       /\ SubSeq(b_data'[nb], 1, Len(chunk)) = chunk ]_vars

\* C17 witness: the foreground swapped onto the last of three chunks and
\* consumed all of its bytes.
C17_Witness ==
    /\ TrueNumChunks = 3 /\ r_id = 2
    /\ r_pc = "idle"
    /\ delivered = file

\* C18: at most one load thread is alive at any time.
C18_OneLoadInFlight == l_live <= 1

\* C18 witness: a third load is running, the two before it joined.
C18_Witness ==
    /\ loadsStarted = 3
    /\ l_live = 1
    /\ l_pc = "read"
    /\ ReaderInUse

\* C19: a call that asks for exactly what is left of a chunk that is not the
\* last swaps once; and the reader starts no load beyond the chunk count:
\* never more loads than chunks, and exactly as many once the whole file
\* has been read and the stream closed.
C19_OneSwapNoExtraLoads ==
    /\ (/\ r_pc = "idle" /\ r_req > 0 /\ r_got = r_req
        /\ (r_snap.n % r_cap) + r_req = r_cap
        /\ r_snap.n + r_req < Len(file)) =>
           (r_id = r_snap.id + 1 /\ r_isA # r_snap.isA)
    /\ loadsStarted <= TrueNumChunks
    /\ (r_pc = "closed" /\ Len(delivered) = Len(file)) => loadsStarted = TrueNumChunks

\* C20: the foreground changes the bytes of an accumulator, and starts a
\* flush of it, only while no flush of that accumulator is in flight.
C20_NoCopyIntoFlushingBuffer ==
    [][ \A b \in Bufs :
            (w_buf'[b] # w_buf[b] \/ w_ticket'[b] # w_ticket[b]) => ~Running(b) ]_vars

\* C20 witness: accumulator A is being flushed for the second time, after
\* its first flush was joined, while B's flush is still in flight.
C20_Witness ==
    /\ w_ticket["A"] = 3
    /\ Running("A")
    /\ Running("B")

\* C21: the direct write of an overwrite whose range lies within the
\* appended bytes changes the file in that range only and leaves the put
\* position at the append position; and in the closed file the bytes
\* appended after the call occupy the places right after those appended
\* before it.
C21_OverwriteInsideChangesOnlyRange ==
    [][ /\ (w_pc = "ow_write" /\ w_pc' = "idle" /\ ow_off + ow_n <= Len(ow_before)) =>
               /\ Len(file') = Len(file)
               /\ \A i \in 1..Len(file) :
                      file'[i] = IF i > ow_off /\ i <= ow_off + ow_n
                                 THEN OvByte(ow_id, i - ow_off) ELSE file[i]
               /\ w_fpos' = w_fpos
               /\ w_fpos' = Len(ow_before)
        /\ (w_pc' = "closed" /\ w_owCount' = 1 /\ ow_off' + ow_n' <= Len(ow_before')) =>
               \A i \in (Len(ow_before') + 1)..w_appended' :
                   file'[i] \in (Len(ow_before') + 1)..w_appended' ]_vars

\* C21 witness: a closed stream with one overwrite strictly inside the bytes
\* appended before it, and more bytes appended after it.
C21_Witness ==
    /\ w_pc = "closed"
    /\ w_owCount = 1
    /\ ow_off > 0 /\ ow_off + ow_n < Len(ow_before)
    /\ w_appended > Len(ow_before)

C25_CallsReturn ==
    (w_pc \in {"write", "ow_flush", "ow_write", "close_flush", "close_fin"})
        ~> (w_pc \in {"idle", "closed", "range_error"})

\* C25 witness: completeWrite waits in ensure_all_buffs_flushed_to_file
\* while both flushes are still in flight, one of them holding the lock.
C25_Witness ==
    /\ w_pc = "close_flush"
    /\ w_task["A"] = "locked"
    /\ w_task["B"] = "pending"

\* C26: whenever no flush is in flight and the accumulator is empty, the
\* put position equals numBytesStored_soFar(); and between calls
\* numBytesStored_soFar() is the bytes in the file up to the put position,
\* plus those of the flushes in flight, plus the fill offset, which is
\* below the buffer size.
C26_CounterTracksAppendPosition ==
    /\ (/\ w_pc \in {"idle", "ow_write", "close_fin", "closed"}
        /\ \A b \in Bufs : ~Running(b)
        /\ w_next_ix = 0) => w_fpos = w_numBytesStored
    /\ w_pc = "idle" =>
           /\ w_next_ix < w_buffSize
           /\ w_numBytesStored =
                  w_fpos + w_buffSize * Cardinality({b \in Bufs : Running(b)}) + w_next_ix

\* C23: once BeginRead has returned on a reader that was used before, and
\* before anything is read, the active buffer is A, the chunk index is 0,
\* and A holds chunk 0 of the new file with its size and the cursor at its
\* start; BeginRead on a file that is not empty does not fail; EndRead on
\* a closed reader changes nothing.
C23_ReopenResets ==
    /\ (r_reopens > 0 /\ Len(file) > 0) => r_pc # "failed"
    /\ (r_reopens > 0 /\ r_pc = "idle" /\ r_req = 0) =>
           /\ r_isA
           /\ r_id = 0
           /\ b_ix["A"] = 0
           /\ b_size["A"] = Min(Len(file), r_cap)
           /\ \A i \in 1..Min(Len(file), r_cap) : b_data["A"][i] = i
    /\ (r_pc = "closed") => (l_pc = "none" /\ l_live = 0 /\ ~r_open)

\* C24: for both buffers, in every state, 0 <= cursor <= apparent size <=
\* capacity, so that remaining() (apparent size minus cursor) does not
\* wrap around.
C24_CursorWithinApparentSize ==
    \A b \in Bufs :
        /\ 0 <= b_ix[b]
        /\ b_ix[b] <= b_size[b]
        /\ b_size[b] <= r_cap
        /\ remaining(b) = b_size[b] - b_ix[b]

====
